---- MODULE Spec2Model ----
(***************************************************************************)
(* django-safedelete: soft-delete visibility of the managers               *)
(* (safedelete/managers.py), with the delete()/undelete() policies of the  *)
(* model mixin and the queryset's visibility filter, which the managers    *)
(* call into.                                                              *)
(*                                                                         *)
(* One table of rows stands for the database.  A row carries its model     *)
(* class, a name, one nullable foreign key (parent) and the deleted        *)
(* marker.  Primary keys are handed out in increasing order and are never  *)
(* reused.  `last` records the last operation: its name, the record it    *)
(* acted on or returned, its error, and for delete() the markers before. *)
(***************************************************************************)
EXTENDS Integers, FiniteSets, Sequences, TLC

\* ---------------------------------------------------------------- bounds
MaxPk == 2
MaxTime == 2

\* None: a null marker, a null foreign key, an absent argument.
NULL == 0

\* The values of the name field, and defaults=None.
Names == {"a", "b"}
NoDefaults == "None"
Times == 1..MaxTime

\* ------------------------------------------------- delete policies, modes
NO_DELETE == "NO_DELETE"
SOFT_DELETE == "SOFT_DELETE"
SOFT_DELETE_CASCADE == "SOFT_DELETE_CASCADE"
HARD_DELETE == "HARD_DELETE"
HARD_DELETE_NOCASCADE == "HARD_DELETE_NOCASCADE"

DELETED_INVISIBLE == "DELETED_INVISIBLE"
DELETED_VISIBLE == "DELETED_VISIBLE"
DELETED_ONLY_VISIBLE == "DELETED_ONLY_VISIBLE"
DELETED_VISIBLE_BY_PK == "DELETED_VISIBLE_BY_PK"

\* force_visibility=None
NoForce == "None"

\* --------------------------------------------------------- model classes
\* The models of the test suite, and one model with the cascade policy.
CascadeModel == "Folder"
TestModels == {"Author", "Category", "Article", "VeryImportant"}
Models == TestModels \cup {CascadeModel}

\* Faulty variant: Article declared with the soft policy.
TestModelPolicyArticleSoft(model) ==
    CASE model = "Author" -> HARD_DELETE_NOCASCADE
      [] model = "Category" -> SOFT_DELETE
      [] model = "Article" -> SOFT_DELETE
      [] model = "VeryImportant" -> NO_DELETE
      [] OTHER -> SOFT_DELETE_CASCADE

\* Faulty variant: Author declared with the cascading hard policy.
TestModelPolicyAuthorCascade(model) ==
    CASE model = "Author" -> HARD_DELETE
      [] model = "Category" -> SOFT_DELETE
      [] model = "Article" -> HARD_DELETE
      [] model = "VeryImportant" -> NO_DELETE
      [] OTHER -> SOFT_DELETE_CASCADE

\* _safedelete_policy of the test models.
TestModelPolicy(model) ==
    CASE model = "Author" -> HARD_DELETE_NOCASCADE
      [] model = "Category" -> SOFT_DELETE
      [] model = "Article" -> HARD_DELETE
      [] model = "VeryImportant" -> NO_DELETE
      [] OTHER -> SOFT_DELETE_CASCADE

\* model.get_delete_policy()
get_delete_policy(model) ==
    IF model = CascadeModel THEN SOFT_DELETE_CASCADE ELSE TestModelPolicy(model)

\* Faulty variant: Category.name declared without unique=True.
NoUniqueModels == {}

\* The fields declared unique=True: Category.name.
UniqueModels == {"Category"}

\* model.has_unique_fields(model)
has_unique_fields(model) == model \in UniqueModels

\* SafeDeleteManager.get_soft_delete_policies()
get_soft_delete_policies == {SOFT_DELETE, SOFT_DELETE_CASCADE}

\* -------------------------------------------------------------- managers
ManagerKinds ==
    {"SafeDeleteManager", "SafeDeleteAllManager", "SafeDeleteDeletedManager",
     "CategoryManager"}

\* Faulty variant: the default manager declared with DELETED_ONLY_VISIBLE.
ManagerVisibilityDefaultOnly(kind) ==
    CASE kind = "SafeDeleteManager" -> DELETED_ONLY_VISIBLE
      [] kind = "SafeDeleteAllManager" -> DELETED_VISIBLE
      [] kind = "SafeDeleteDeletedManager" -> DELETED_ONLY_VISIBLE
      [] kind = "CategoryManager" -> DELETED_VISIBLE_BY_PK

\* The class attribute _safedelete_visibility of each manager class.
ManagerVisibility(kind) ==
    CASE kind = "SafeDeleteManager" -> DELETED_INVISIBLE
      [] kind = "SafeDeleteAllManager" -> DELETED_VISIBLE
      [] kind = "SafeDeleteDeletedManager" -> DELETED_ONLY_VISIBLE
      [] kind = "CategoryManager" -> DELETED_VISIBLE_BY_PK

\* The class attribute _safedelete_visibility_field.
ManagerVisibilityField == "pk"

VARIABLES rows, nextPk, managers, last

vars == <<rows, nextPk, managers, last>>

\* ------------------------------------------------------------- the table
Alive(rs) == {p \in DOMAIN rs : rs[p].deleted = NULL}
SoftDeleted(rs) == {p \in DOMAIN rs : rs[p].deleted # NULL}
OfModel(rs, model) == {p \in DOMAIN rs : rs[p].model = model}

\* The deleted marker of every row.
Markers(rs) == [p \in DOMAIN rs |-> rs[p].deleted]

\* rs with the rows of S dropped.
Without(rs, S) == [p \in (DOMAIN rs) \ S |-> rs[p]]

\* rs with the row pk set to row (inserted when new).
With(rs, pk, row) ==
    [p \in (DOMAIN rs) \cup {pk} |-> IF p = pk THEN row ELSE rs[p]]

\* rs with the marker of every row of S set to t.
Marked(rs, S, t) ==
    [p \in DOMAIN rs |-> IF p \in S THEN [rs[p] EXCEPT !.deleted = t] ELSE rs[p]]

RECURSIVE Closure(_, _)
Closure(rs, S) ==
    LET T == S \cup {c \in DOMAIN rs : rs[c].parent \in S}
    IN  IF T = S THEN S ELSE Closure(rs, T)

\* The records that reference pk through the relationship field, transitively.
Dependents(rs, pk) == Closure(rs, {pk}) \ {pk}

\* The database's unique constraint: another row of the model holds the name.
UniqueConflict(rs, model, name, self) ==
    /\ has_unique_fields(model)
    /\ \E p \in OfModel(rs, model) : p # self /\ rs[p].name = name

Min(S) == CHOOSE x \in S : \A y \in S : x <= y

\* -------------------------------------------------------------- queryset
NoLookup == [field |-> "none", value |-> NULL]

\* SafeDeleteManager.get_queryset
get_queryset(self, model) ==
    [model |-> model,
     safedelete_visibility |-> self.safedelete_visibility,
     safedelete_visibility_field |-> self.safedelete_visibility_field,
     safedelete_force_visibility |-> NoForce,
     lookup |-> NoLookup,
     exclude_alive |-> FALSE]

\* Faulty variant: the forced visibility is written to the manager, not to
\* the queryset.
all_on_manager(self, model, force_visibility) ==
    LET me == IF force_visibility # NoForce
              THEN [self EXCEPT !.safedelete_visibility = force_visibility]
              ELSE self
    IN  [qs |-> get_queryset(me, model), self |-> me]

\* SafeDeleteManager.all: the queryset returned, and the manager after the call.
all(self, model, force_visibility) ==
    LET qs == get_queryset(self, model)
    IN  [qs |-> IF force_visibility # NoForce
                THEN [qs EXCEPT !.safedelete_force_visibility = force_visibility]
                ELSE qs,
         self |-> self]

\* SafeDeleteManager.all_with_deleted
all_with_deleted(self, model) == all(self, model, DELETED_VISIBLE)

\* Faulty variant: deleted_only() forcing the visibility of all_with_deleted().
deleted_only_visible(self, model) == all(self, model, DELETED_VISIBLE)

\* SafeDeleteManager.deleted_only
deleted_only(self, model) == all(self, model, DELETED_ONLY_VISIBLE)

\* QuerySet.filter(field=value)
filter(qs, field, value) == [qs EXCEPT !.lookup = [field |-> field, value |-> value]]

\* QuerySet.exclude(deleted=None)
exclude_deleted_none(qs) == [qs EXCEPT !.exclude_alive = TRUE]

\* The visibility a queryset is evaluated with: the forced one when there is
\* one; a DELETED_VISIBLE_BY_PK queryset shows deleted rows only to a lookup
\* on its visibility field.
EffectiveVisibility(qs) ==
    IF qs.safedelete_force_visibility # NoForce THEN qs.safedelete_force_visibility
    ELSE IF qs.safedelete_visibility = DELETED_VISIBLE_BY_PK
         THEN IF qs.lookup.field = qs.safedelete_visibility_field
              THEN DELETED_VISIBLE ELSE DELETED_INVISIBLE
         ELSE qs.safedelete_visibility

Matches(rs, p, lookup) ==
    CASE lookup.field = "pk" -> p = lookup.value
      [] lookup.field = "name" -> rs[p].name = lookup.value
      [] OTHER -> TRUE

\* The rows a queryset evaluates to.
Results(rs, qs) ==
    LET v == EffectiveVisibility(qs)
    IN  {p \in OfModel(rs, qs.model) :
            /\ Matches(rs, p, qs.lookup)
            /\ (qs.exclude_alive => rs[p].deleted # NULL)
            /\ CASE v = DELETED_VISIBLE -> TRUE
                 [] v = DELETED_ONLY_VISIBLE -> rs[p].deleted # NULL
                 [] OTHER -> rs[p].deleted = NULL}

\* QuerySet.first(): the row of lowest pk, or None.
first(rs, qs) == IF Results(rs, qs) = {} THEN NULL ELSE Min(Results(rs, qs))

\* ---------------------------------------------------------- model mixin
\* delete(): the table after it, "error" when the policy refuses.
delete(rs, pk, t) ==
    LET policy == get_delete_policy(rs[pk].model)
    IN  CASE policy = NO_DELETE -> [rows |-> rs, err |-> "PolicyViolation"]
          [] policy = HARD_DELETE ->
                [rows |-> Without(rs, Closure(rs, {pk})), err |-> ""]
          [] policy = HARD_DELETE_NOCASCADE ->
                [rows |-> Without(rs, {pk}), err |-> ""]
          [] policy = SOFT_DELETE ->
                [rows |-> Marked(rs, {pk}, t), err |-> ""]
          [] policy = SOFT_DELETE_CASCADE ->
                [rows |-> Marked(rs, Closure(rs, {pk}), t), err |-> ""]

\* undelete(): clears the marker, recursively for the cascade policy.
undelete(rs, pk) ==
    IF get_delete_policy(rs[pk].model) = SOFT_DELETE_CASCADE
    THEN Marked(rs, Closure(rs, {pk}), NULL)
    ELSE Marked(rs, {pk}, NULL)

\* validate_unique() of an unsaved record: deleted rows count too.
validate_unique(rs, model, name) ==
    IF UniqueConflict(rs, model, name, NULL) THEN "ValidationError" ELSE ""

\* ------------------------------------------------------ update_or_create
\* Faulty variant: the lookup done whatever the policy and the fields.
deleted_object_unguarded(rs, self, model, name) ==
    first(rs, exclude_deleted_none(
                filter(all_with_deleted(self, model).qs, "name", name)))

\* Lines 113-116: the soft-deleted row the lookup finds, or None.
deleted_object(rs, self, model, name) ==
    IF get_delete_policy(model) \in get_soft_delete_policies /\ has_unique_fields(model)
    THEN first(rs, exclude_deleted_none(
                     filter(all_with_deleted(self, model).qs, "name", name)))
    ELSE NULL

\* Lines 119-121: the table after the revival of that row.
Revive(rs, self, model, name) ==
    LET obj == deleted_object(rs, self, model, name)
    IN  IF obj # NULL THEN Marked(rs, {obj}, NULL) ELSE rs

\* Line 124: the host's update_or_create on the manager's own queryset.
\* get(**kwargs); one row: set the defaults and save; none: create.
HostUpdateOrCreate(rs, self, model, name, dflt, pk) ==
    LET found == Results(rs, filter(get_queryset(self, model), "name", name))
        newname == IF dflt # NoDefaults THEN dflt ELSE name
    IN  IF Cardinality(found) > 1
        THEN [rows |-> rs, err |-> "MultipleObjectsReturned", obj |-> NULL,
              created |-> FALSE]
        ELSE IF Cardinality(found) = 1
        THEN LET obj == Min(found)
             IN  IF UniqueConflict(rs, model, newname, obj)
                 THEN [rows |-> rs, err |-> "IntegrityError", obj |-> NULL,
                       created |-> FALSE]
                 ELSE [rows |-> [rs EXCEPT ![obj].name = newname], err |-> "",
                       obj |-> obj, created |-> FALSE]
        ELSE IF UniqueConflict(rs, model, newname, NULL)
             THEN [rows |-> rs, err |-> "IntegrityError", obj |-> NULL,
                   created |-> FALSE]
             ELSE [rows |-> With(rs, pk, [model |-> model, name |-> newname,
                                          parent |-> NULL, deleted |-> NULL]),
                   err |-> "", obj |-> pk, created |-> TRUE]

\* SafeDeleteManager.update_or_create(defaults={name: dflt}, name=name)
update_or_create(rs, self, model, name, dflt, pk) ==
    LET r == HostUpdateOrCreate(Revive(rs, self, model, name), self, model,
                                name, dflt, pk)
    IN  [rows |-> r.rows, err |-> r.err, obj |-> r.obj, created |-> r.created,
         revived |-> deleted_object(rs, self, model, name)]

\* --------------------------------------------------------------- actions
\* The record of an operation: pk is the record acted on or returned,
\* revived the soft-deleted row update_or_create() found, pre the markers
\* before a delete().  An undelete() that directly follows a successful
\* delete() of the same record keeps that delete()'s pre and says so in after.
Op(op, pk, err, created, revived, pre, after) ==
    [op |-> op, pk |-> pk, err |-> err, created |-> created,
     revived |-> revived, pre |-> pre, after |-> after]

Init ==
    /\ rows = <<>>
    /\ nextPk = 1
    /\ managers = [k \in ManagerKinds |->
                     [safedelete_visibility |-> ManagerVisibility(k),
                      safedelete_visibility_field |-> ManagerVisibilityField]]
    /\ last = Op("init", NULL, "", FALSE, NULL, <<>>, FALSE)

\* Model.objects.create(name=name, parent=parent)
CreateStep(model, name, parent) ==
    /\ nextPk <= MaxPk
    /\ IF UniqueConflict(rows, model, name, NULL)
       THEN /\ last' = Op("create", NULL, "IntegrityError", FALSE, NULL, <<>>,
                          FALSE)
            /\ UNCHANGED <<rows, nextPk>>
       ELSE /\ rows' = With(rows, nextPk, [model |-> model, name |-> name,
                                           parent |-> parent, deleted |-> NULL])
            /\ nextPk' = nextPk + 1
            /\ last' = Op("create", nextPk, "", TRUE, NULL, <<>>, FALSE)
    /\ UNCHANGED managers

Create ==
    \E model \in Models, name \in Names, parent \in {NULL} \cup DOMAIN rows :
        CreateStep(model, name, parent)

\* instance.delete(), at time t
DeleteStep(pk, t) ==
    LET r == delete(rows, pk, t)
    IN  /\ rows' = r.rows
        /\ last' = Op("delete", pk, r.err, FALSE, NULL, Markers(rows), FALSE)
        /\ UNCHANGED <<nextPk, managers>>

Delete == \E pk \in DOMAIN rows, t \in Times : DeleteStep(pk, t)

\* instance.undelete()
UndeleteStep(pk) ==
    /\ rows' = undelete(rows, pk)
    /\ LET follows == last.op = "delete" /\ last.pk = pk /\ last.err = ""
       IN  last' = Op("undelete", pk, "", FALSE, NULL,
                      IF follows THEN last.pre ELSE <<>>, follows)
    /\ UNCHANGED <<nextPk, managers>>

Undelete == \E pk \in DOMAIN rows : UndeleteStep(pk)

\* The name of the manager's entry point that forces a visibility.
EntryPoint(force) ==
    CASE force = DELETED_VISIBLE -> "all_with_deleted"
      [] force = DELETED_ONLY_VISIBLE -> "deleted_only"
      [] OTHER -> "all"

\* manager.all(), manager.all_with_deleted(), manager.deleted_only()
QueryStep(kind, model, force) ==
    LET r == all(managers[kind], model, force)
    IN  /\ managers' = [managers EXCEPT ![kind] = r.self]
        /\ last' = Op(EntryPoint(force), NULL, "", FALSE, NULL, <<>>, FALSE)
        /\ UNCHANGED <<rows, nextPk>>

Query ==
    \E kind \in ManagerKinds, model \in Models,
       force \in {NoForce, DELETED_VISIBLE, DELETED_ONLY_VISIBLE} :
        QueryStep(kind, model, force)

\* manager.update_or_create(defaults={name: dflt}, name=name)
UpdateOrCreateStep(kind, model, name, dflt) ==
    LET r == update_or_create(rows, managers[kind], model, name, dflt, nextPk)
    IN  /\ r.created => nextPk <= MaxPk
        /\ rows' = r.rows
        /\ nextPk' = IF r.created THEN nextPk + 1 ELSE nextPk
        /\ last' = Op("update_or_create", r.obj, r.err, r.created, r.revived,
                      <<>>, FALSE)
        /\ UNCHANGED managers

UpdateOrCreate ==
    \E kind \in ManagerKinds, model \in Models, name \in Names,
       dflt \in {NoDefaults} \cup Names :
        UpdateOrCreateStep(kind, model, name, dflt)

\* Model(name=name).validate_unique()
ValidateUniqueStep(model, name) ==
    /\ last' = Op("validate_unique", NULL, validate_unique(rows, model, name),
                  FALSE, NULL, <<>>, FALSE)
    /\ UNCHANGED <<rows, nextPk, managers>>

ValidateUnique ==
    \E model \in Models, name \in Names : ValidateUniqueStep(model, name)

Next ==
    \/ Create
    \/ Delete
    \/ Undelete
    \/ Query
    \/ UpdateOrCreate
    \/ ValidateUnique

Spec == Init /\ [][Next]_vars

\* ---------------------------------------------------------------- claims
DefaultManager == managers["SafeDeleteManager"]
Forces == {NoForce, DELETED_VISIBLE, DELETED_ONLY_VISIBLE}
Created == 1..(nextPk - 1)
Removed == Created \ DOMAIN rows
PolicyOf(rs, pk) == get_delete_policy(rs[pk].model)

\* C1: for every model, a soft-deleted row is absent from the default
\* manager's results and present in all_with_deleted(); deleted_only() is
\* exactly the soft-deleted rows; the default results and deleted_only() are
\* disjoint and together make all_with_deleted().
C1_VisibilityPartition ==
    \A model \in Models, kind \in ManagerKinds :
        LET visible == Results(rows, all(DefaultManager, model, NoForce).qs)
            every == Results(rows, all_with_deleted(managers[kind], model).qs)
            only == Results(rows, deleted_only(managers[kind], model).qs)
        IN  /\ \A p \in OfModel(rows, model) :
                 rows[p].deleted # NULL => p \notin visible /\ p \in every
            /\ only = OfModel(rows, model) \cap SoftDeleted(rows)
            /\ visible \cap only = {}
            /\ visible \cup only = every

\* C1 happens: a delete() has left a model with a soft-deleted and an alive row.
C1_Witness ==
    /\ last.op = "delete"
    /\ \E p \in SoftDeleted(rows), q \in Alive(rows) : rows[p].model = rows[q].model

\* C2: an undelete() right after the delete() of an alive record of a soft
\* policy leaves the record persisted, its marker null, and the record in the
\* default manager's results again.
C2_UndeleteRestores ==
    (last.op = "undelete" /\ last.after /\ last.pre[last.pk] = NULL)
        => /\ last.pk \in DOMAIN rows
           /\ rows[last.pk].deleted = NULL
           /\ last.pk \in Results(rows, get_queryset(DefaultManager,
                                                     rows[last.pk].model))

\* C2 happens: such an undelete() has acted on a record of a soft policy.
C2_Witness ==
    /\ last.op = "undelete" /\ last.after /\ last.pre[last.pk] = NULL
    /\ PolicyOf(rows, last.pk) \in get_soft_delete_policies

\* C3: delete() on a NO_DELETE record fails and changes nothing, and a
\* NO_DELETE record is never removed nor marked deleted by any step.
C3_NoDeleteNeverDeleted ==
    [][/\ \A pk \in DOMAIN rows, t \in Times :
             (PolicyOf(rows, pk) = NO_DELETE /\ DeleteStep(pk, t))
                 => last'.err = "PolicyViolation" /\ rows' = rows
       /\ \A p \in DOMAIN rows :
             (PolicyOf(rows, p) = NO_DELETE /\ rows[p].deleted = NULL)
                 => p \in DOMAIN rows' /\ rows'[p].deleted = NULL]_vars

\* C4: delete() of a SOFT_DELETE_CASCADE record marks it and every record
\* reachable from it; the undelete() that follows the delete() of an alive
\* parent returns each of them to the marker it had before the delete().
C4_CascadeReversed ==
    /\ (last.op = "delete" /\ last.err = "" /\ last.pk \in DOMAIN rows
            /\ PolicyOf(rows, last.pk) = SOFT_DELETE_CASCADE)
        => \A p \in Closure(rows, {last.pk}) : rows[p].deleted # NULL
    /\ (last.op = "undelete" /\ last.after /\ last.pre[last.pk] = NULL
            /\ PolicyOf(rows, last.pk) = SOFT_DELETE_CASCADE)
        => \A p \in Closure(rows, {last.pk}) : rows[p].deleted = last.pre[p]

\* C5: on a model of a soft policy with a unique field, update_or_create()
\* whose lookup matches a soft-deleted row and no alive row returns that
\* row, revived, with created = False and no row added; a row is created
\* only when the lookup matches no row at all.
C5_ReviveThenUpdate ==
    [][\A kind \in ManagerKinds, model \in Models, name \in Names,
          dflt \in {NoDefaults} \cup Names :
          (/\ get_delete_policy(model) \in get_soft_delete_policies
           /\ has_unique_fields(model)
           /\ UpdateOrCreateStep(kind, model, name, dflt))
          => LET matched == {p \in OfModel(rows, model) : rows[p].name = name}
             IN  /\ (matched # {} /\ matched \subseteq SoftDeleted(rows))
                        => /\ last'.err = ""
                           /\ ~last'.created
                           /\ last'.pk \in matched
                           /\ DOMAIN rows' = DOMAIN rows
                           /\ rows'[last'.pk].deleted = NULL
                           /\ last'.pk \in Results(rows',
                                    get_queryset(DefaultManager, model))
                 /\ last'.created => matched = {}]_vars

NoDuplicateNames(rs) ==
    \A p, q \in OfModel(rs, "Category") : rs[p].name = rs[q].name => p = q

\* C6: validate_unique() of an unsaved Category whose name is that of a
\* soft-deleted Category fails, and no two persisted Category rows, alive or
\* soft-deleted, ever share a name.
C6_UniqueCountsDeleted ==
    [][/\ \A name \in Names :
             (/\ ValidateUniqueStep("Category", name)
              /\ \E p \in OfModel(rows, "Category") \cap SoftDeleted(rows) :
                    rows[p].name = name)
                 => last'.err = "ValidationError"
       /\ NoDuplicateNames(rows')]_vars

\* C6 happens: validate_unique() has failed while every Category is soft-deleted.
C6_Witness ==
    /\ last.op = "validate_unique" /\ last.err = "ValidationError"
    /\ OfModel(rows, "Category") # {}
    /\ OfModel(rows, "Category") \subseteq SoftDeleted(rows)

QueryOps == {"all", "all_with_deleted", "deleted_only"}

\* C7 as stated: the queries and update_or_create() leave every marker as it was.
C7_OnlyDeleteUndeleteMutate ==
    [][last'.op \in QueryOps \cup {"update_or_create"}
          => \A p \in DOMAIN rows :
                p \in DOMAIN rows' /\ rows'[p].deleted = rows[p].deleted]_vars

\* C7, amended: the queries leave every marker as it was; update_or_create()
\* never sets a marker, and clears at most the marker of the one soft-deleted
\* row its lookup found, on a model of a soft policy with a unique field.
C7_MarkerFrame ==
    [][/\ last'.op \in QueryOps => rows' = rows
       /\ last'.op = "update_or_create"
            => \A p \in DOMAIN rows :
                  /\ p \in DOMAIN rows'
                  /\ \/ rows'[p].deleted = rows[p].deleted
                     \/ /\ p = last'.revived
                        /\ rows[p].deleted # NULL /\ rows'[p].deleted = NULL
                        /\ PolicyOf(rows, p) \in get_soft_delete_policies
                        /\ has_unique_fields(rows[p].model)]_vars

\* C7 happens: update_or_create() has revived a row.
C7_Witness ==
    /\ last.op = "update_or_create" /\ last.revived # NULL
    /\ last.revived \in Alive(rows)

\* C8: every persisted row was created; the delete() of an Article (hard
\* policy) removes it; a removed record stays removed through every step and
\* is in the results of no queryset, whatever the manager, the forced
\* visibility and the lookup.
C8_RemovedStaysRemoved ==
    [][/\ DOMAIN rows' \subseteq 1..(nextPk' - 1)
       /\ \A pk \in DOMAIN rows, t \in Times :
             (rows[pk].model = "Article" /\ DeleteStep(pk, t))
                 => pk \notin DOMAIN rows'
       /\ \A p \in Removed : p \notin DOMAIN rows'
       /\ \A p \in (1..(nextPk' - 1)) \ DOMAIN rows' :
             \A kind \in ManagerKinds, model \in Models, force \in Forces :
                LET qs == all(managers'[kind], model, force).qs
                IN  /\ p \notin Results(rows', qs)
                    /\ p \notin Results(rows', filter(qs, "pk", p))]_vars

\* C8 happens: an undelete() or update_or_create() has acted while a record
\* is removed.
C8_Witness ==
    /\ last.op \in {"undelete", "update_or_create"}
    /\ Removed # {}

\* C9: delete() of an Author (HARD_DELETE_NOCASCADE) removes its row and
\* leaves every dependent persisted and unchanged; delete() of an Article
\* (HARD_DELETE) removes its row and its dependents.
C9_NoCascadeLeavesDependents ==
    [][\A pk \in DOMAIN rows, t \in Times :
          DeleteStep(pk, t)
          => /\ rows[pk].model = "Author"
                  => /\ pk \notin DOMAIN rows'
                     /\ \A d \in DOMAIN rows \ {pk} :
                           d \in DOMAIN rows' /\ rows'[d] = rows[d]
             /\ rows[pk].model = "Article"
                  => /\ pk \notin DOMAIN rows'
                     /\ \A d \in Dependents(rows, pk) : d \notin DOMAIN rows'
                     /\ \A d \in DOMAIN rows \ Closure(rows, {pk}) :
                           d \in DOMAIN rows' /\ rows'[d] = rows[d]]_vars

\* C9 happens: a delete() has removed a record and left a dependent of it.
C9_Witness ==
    /\ last.op = "delete" /\ last.pk \notin DOMAIN rows
    /\ \E d \in DOMAIN rows : rows[d].parent = last.pk

\* C10: on the DELETED_VISIBLE_BY_PK manager a soft-deleted row is found by
\* a lookup on the primary key and by no other query; all_with_deleted() and
\* deleted_only() of any manager return all rows and the soft-deleted rows,
\* and leave the manager's visibility as its class declares it.
C10_VisibleByPk ==
    /\ \A p \in SoftDeleted(rows) :
          LET qs == get_queryset(managers["CategoryManager"], rows[p].model)
          IN  /\ p \in Results(rows, filter(qs, "pk", p))
              /\ p \notin Results(rows, qs)
              /\ \A n \in Names : p \notin Results(rows, filter(qs, "name", n))
    /\ \A kind \in ManagerKinds, model \in Models :
          /\ Results(rows, all_with_deleted(managers[kind], model).qs)
                = OfModel(rows, model)
          /\ Results(rows, deleted_only(managers[kind], model).qs)
                = OfModel(rows, model) \cap SoftDeleted(rows)
          /\ all_with_deleted(managers[kind], model).self = managers[kind]
          /\ deleted_only(managers[kind], model).self = managers[kind]
    /\ \A kind \in ManagerKinds :
          managers[kind].safedelete_visibility = ManagerVisibility(kind)

\* C10 happens: all_with_deleted() or deleted_only() has been called while a
\* row is soft-deleted.
C10_Witness ==
    /\ last.op \in {"all_with_deleted", "deleted_only"}
    /\ SoftDeleted(rows) # {}

====
